---- MODULE Spec2Model ----
(***************************************************************************)
(* A model of the DNS message decoder of src/src/structure.rs:             *)
(* BytePacketBuffer (a 512-byte buffer and a cursor), read_qname (name     *)
(* decompression), DnsHeader::read, DnsQuestion::read, DnsRecord::from and *)
(* DnsPacket::from_buf.                                                    *)
(*                                                                         *)
(* The buffer's content is the input.  A byte is chosen when the decoder   *)
(* first reads it and is kept from then on (mem), so a behaviour stands    *)
(* for every buffer that agrees with mem on the bytes read.  The sets the  *)
(* bytes are drawn from depend on what the byte is read as and on the      *)
(* family of inputs (profile) Init picks.                                  *)
(***************************************************************************)
EXTENDS Integers, Sequences, FiniteSets, TLC

VARIABLES
    profile,          \* the family of inputs this behaviour draws its bytes from
    fuel,             \* how many more labels / pointers / non-zero fields the input may hold
    mem,              \* buf: the bytes read so far, position -> byte
    pos,              \* BytePacketBuffer.pos, the cursor
    pc,               \* the statement the decoder is at
    ret,              \* the statement read_qname returns to
    err,              \* the error the decode failed with, "" when none
    qstart,           \* the cursor when read_qname was entered
    qpos,             \* read_qname: pos (the local position)
    out,              \* read_qname: out, a sequence of code points
    jumped,           \* read_qname: jumped
    jumps_performed,  \* read_qname: jumps_performed
    delim,            \* read_qname: delim
    len,              \* read_qname: len, the length byte of the current iteration
    name,             \* the String the last read_qname returned
    header,           \* DnsPacket.header
    questions,        \* DnsPacket.questions
    answers,          \* DnsPacket.answers
    authorities,      \* DnsPacket.authorities
    additional,       \* DnsPacket.additional
    sect,             \* from_buf: which of the four loops is running
    i,                \* from_buf: the iterations the running loop has completed
    rec,              \* DnsQuestion::read / DnsRecord::from: the fields read so far
    range_check,      \* which bound check get_range is built with
    first             \* the outcome of the run with the source's get_range

vars == <<profile, fuel, mem, pos, pc, ret, err, qstart, qpos, out, jumped,
          jumps_performed, delim, len, name, header, questions, answers,
          authorities, additional, sect, i, rec, range_check, first>>

qvars == <<qstart, qpos, out, jumped, jumps_performed, delim, len>>
pktvars == <<header, questions, answers, authorities, additional, sect, i, rec>>
cmpvars == <<range_check, first>>

----------------------------------------------------------------------------
(* Program constants *)

BufSize == 512
max_jumps == 5

EndOfBuffer == "End of buffer"
MaxJumpsExceeded == "max jumps exceeded"

----------------------------------------------------------------------------
(* Bounds of the model *)

MaxLabels == 2      \* labels the input family "qname" may place in one name
FewPointers == 2    \* pointers the input family "qname" may place in one name
MaxPointers == 7    \* pointers and labels the input family "chain" may place in one name
MaxHeaderBytes == 3 \* non-zero bytes the input family "header" may hold
EdgeLabels == 3     \* labels the input family "edge" may hold
MaxFields == 2      \* non-zero bytes the body of an input of the family "small" may hold

----------------------------------------------------------------------------
(* Rust's integer operators on unsigned values *)

RECURSIVE BitAnd(_, _)
BitAnd(a, b) ==
    IF a = 0 \/ b = 0 THEN 0
    ELSE (a % 2) * (b % 2) + 2 * BitAnd(a \div 2, b \div 2)

RECURSIVE BitOr(_, _)
BitOr(a, b) ==
    IF a = 0 THEN b
    ELSE IF b = 0 THEN a
    ELSE (IF a % 2 = 1 \/ b % 2 = 1 THEN 1 ELSE 0) + 2 * BitOr(a \div 2, b \div 2)

RECURSIVE BitXor(_, _)
BitXor(a, b) ==
    IF a = 0 THEN b
    ELSE IF b = 0 THEN a
    ELSE ((a + b) % 2) + 2 * BitXor(a \div 2, b \div 2)

Shl16(a, n) == (a * (2 ^ n)) % 65536
Shr(a, n) == a \div (2 ^ n)

\* A u32 is kept as its two 16-bit halves <<high, low>>: it exceeds the
\* checker's integers.
AsU32(v) == <<0, v>>
Or32(x, y) == <<BitOr(x[1], y[1]), BitOr(x[2], y[2])>>
Shl32By16(x) == <<x[2], 0>>

----------------------------------------------------------------------------
(* BytePacketBuffer *)

Known(p) == p \in DOMAIN mem

Put(m, p, b) == IF p \in DOMAIN m THEN m ELSE (p :> b) @@ m

\* a bound check that lets position 512 through
GetFailsPastEnd(p) == p > BufSize

\* get and read: `if pos >= 512 { bail!("End of buffer") }`
GetFails(p) == p >= BufSize

\* get_range: `if start + len >= 512 { bail!("End of buffer") }`
GetRangeFails(start, n) == start + n >= BufSize

\* get_range built with the exact bound, `start + len > 512`
GetRangeExactFails(start, n) == start + n > BufSize

RangeFails(start, n) ==
    IF range_check = "exact" THEN GetRangeExactFails(start, n)
    ELSE GetRangeFails(start, n)

\* read: `if self.pos >= 512 { bail!("End of buffer") }`
ReadFails(p) == p >= BufSize

\* `((self.read()? as u16) << 8) | (self.read()? as u16)`
U16Of(hi, lo) == BitOr(Shl16(hi, 8), lo)

\* buf[start..start + n] as a sequence
Slice(m, start, n) == [j \in 1..n |-> m[start + j - 1]]

----------------------------------------------------------------------------
(* The inputs: what a byte may be when the decoder reads it first.
   The families:
     "qname"   names of up to MaxLabels labels and FewPointers pointers, the
               labels short or ending at the buffer's end, the pointers
               backwards, to themselves, to the name's start or out of the
               buffer;
     "chain"   names of up to MaxPointers pointers and one-byte labels, the
               pointers forwards, to themselves or to the name at 12;
     "header"  headers of up to MaxHeaderBytes non-zero bytes;
     "small"   messages of up to 2 questions and 4 records whose bodies hold up
               to MaxFields non-zero bytes;
     "flood"   messages whose counts are 0 or 256 over a zero body;
     "edge"    messages of one question, one record of each section, and up to
               EdgeLabels long labels that reach the buffer's end. *)

Empty == [p \in {} |-> 0]

\* The header of the comment at structure.rs:168 (86 2a 01 20 00 01 00 00 00
\* 00 00 00) followed by the question www.example.com, type A, class 1.
ExampleBytes ==
    <<134, 42, 1, 32, 0, 1, 0, 0, 0, 0, 0, 0,
      3, 119, 119, 119, 7, 101, 120, 97, 109, 112, 108, 101, 3, 99, 111, 109, 0,
      0, 1, 0, 1>>

ExampleMem == [p \in 0..(Len(ExampleBytes) - 1) |-> ExampleBytes[p + 1]]

\* Lengths a label starting at p (its length byte) may have.  In "qname": short
\* ones, and those that end at the buffer's last byte or the one before it.
\* In "edge": 114 and 191, which have bit 6 or 7 set (not a length RFC 1035
\* allows, and read as a length by the decoder).
LabelLens(p) ==
    CASE profile = "qname" ->
            {1, 3} \cup {n \in {BufSize - 2 - p, BufSize - 1 - p} : n > 3 /\ n <= 63}
      [] profile = "chain" -> {1}
      [] profile = "small" -> {3}
      [] profile = "edge"  -> {114, 191}
      [] OTHER -> {}

\* Content of a label, repeated over its length: "AZw", "@[\xFF" (the
\* neighbours of A..Z and a byte that is not UTF-8), "Ww-".
LabelFills ==
    IF profile = "qname" THEN {<<65, 90, 119>>, <<64, 91, 255>>}
    ELSE {<<87, 119, 45>>}

\* Where the pointer at position p may point
PtrTargets(p) ==
    CASE profile = "qname" -> {t \in {p - 2, p, qstart} : t >= 0}
      [] profile = "chain" -> {p + 4, p, 12}
      [] profile = "small" -> {12, p}
      [] profile = "edge"  -> {0}
      [] OTHER -> {}

PtrFirst(p) ==
    {192 + (t \div 256) : t \in PtrTargets(p)}
        \cup (IF profile \in {"qname", "chain"} THEN {255} ELSE {})

PtrSecond(p) == {t % 256 : t \in PtrTargets(p)}

\* What a label ("label") or a pointer ("ptr") is charged to: in "small" every
\* non-zero byte of the body is charged to fuel.field, in "chain" every label
\* and pointer to fuel.ptr
Charged(kind) ==
    CASE profile = "small" -> "field"
      [] profile = "chain" -> "ptr"
      [] OTHER -> kind

\* The length byte at p
LenChoices(p) ==
    IF Known(p) THEN {mem[p]}
    ELSE {0} \cup (IF fuel[Charged("label")] > 0 THEN LabelLens(p) ELSE {})
             \cup (IF fuel[Charged("ptr")] > 0 THEN PtrFirst(p) ELSE {})

\* The second byte of the pointer at p - 1, whose first byte is b
B2Choices(p, b) ==
    IF Known(p) THEN {mem[p]}
    ELSE IF b = 255 THEN {255}
    ELSE PtrSecond(p - 1)

Spend(kind, p) ==
    IF Known(p) THEN fuel
    ELSE [fuel EXCEPT ![Charged(kind)] = fuel[Charged(kind)] - 1]

\* buf with the n bytes from start on read: those not read before are fill's
Reveal(m, start, n, fill) ==
    [p \in DOMAIN m \cup start..(start + n - 1) |->
        IF p \in DOMAIN m THEN m[p] ELSE fill[((p - start) % 3) + 1]]

\* The high byte of a count, and the low bytes of the four counts
CountRoles == {"count_hi", "qd_lo", "an_lo", "ns_lo", "ar_lo"}

\* The non-zero values a byte read as `role` may have
Alt(role) ==
    CASE profile = "header" ->
            (CASE role = "id_hi"   -> {134, 255}
               [] role = "id_lo"   -> {42, 255}
               [] role = "flags_a" -> {1, 2, 4, 8, 16, 32, 64, 128, 120, 133, 255}
               [] role = "flags_b" -> (1..15) \cup {16, 32, 64, 112, 128, 138, 255}
               [] role \in CountRoles -> {1, 255}
               [] OTHER -> {})
      [] profile = "small" ->
            (CASE role \in {"qd_lo", "an_lo"} -> {1, 2}
               [] role \in {"ns_lo", "ar_lo"} -> {1}
               [] role = "type_lo"  -> {1, 2}
               [] role \in {"ttl0", "ttl1", "ttl3"} -> {1}
               [] role = "len_lo"   -> {4}
               [] role = "ip0"      -> {127}
               [] role = "ip3"      -> {1}
               [] OTHER -> {})
      [] profile = "flood" ->
            (CASE role = "count_hi" -> {1}
               [] OTHER -> {})
      [] profile = "edge" ->
            (CASE role \in CountRoles \ {"count_hi"} -> {1}
               [] OTHER -> {})
      [] OTHER -> {}

\* The counts of a message are not charged to fuel.field
Free(role) == profile # "header" /\ role \in CountRoles

Choices(p, role) ==
    IF Known(p) THEN {mem[p]}
    ELSE {0} \cup (IF Free(role) \/ fuel.field > 0 THEN Alt(role) ELSE {})

Cost(p, role, b) == IF Known(p) \/ b = 0 \/ Free(role) THEN 0 ELSE 1

----------------------------------------------------------------------------
(* read_qname *)

\* `(len & 0xC0) == 0xC0`
IsJump(b) == BitAnd(b, 192) = 192

\* `(((len as u16) ^ 0xC0) << 8) | b2`
JumpOffset(b, b2) == BitOr(Shl16(BitXor(b, 192), 8), b2)

\* a limit that is hit one jump early
JumpLimitOffByOne(j) == j >= max_jumps

\* `if jumps_performed > max_jumps { bail!("max jumps exceeded") }`
JumpLimitHit(j) == j > max_jumps

\* a jump that is not counted
JumpsNotCounted(j) == j

\* `jumps_performed += 1`
JumpsAfter(j) == j + 1

\* a seek on every pointer, not only the first
SeekPastEveryPointer(j, cursor, p) == p + 2

\* `if !jumped { self.seek(pos + 2)?; }`: the cursor after it
SeekPastPointer(j, cursor, p) == IF ~j THEN p + 2 ELSE cursor

\* `if !jumped { self.seek(pos)?; }` after the loop: the cursor after it
SeekPastName(j, cursor, p) == IF ~j THEN p ELSE cursor

\* String::from_utf8_lossy on one byte that is ASCII or can start no UTF-8
\* sequence (0x80..0xC1, 0xF5..0xFF): itself, or U+FFFD.  The inputs hold no
\* byte of 0xC2..0xF4.
Utf8Lossy(b) == IF b < 128 THEN b ELSE 65533

\* char::to_lowercase on those code points
ToLowercase(c) == IF c >= 65 /\ c <= 90 THEN c + 32 ELSE c

\* `String::from_utf8_lossy(str_buffer).to_lowercase()`
LabelText(bytes) == [j \in 1..Len(bytes) |-> ToLowercase(Utf8Lossy(bytes[j]))]

Dot == <<46>>

\* the delimiter pushed after the label, not before it
PushLabelThenDot(o, d, text) == o \o text \o Dot

\* `out.push_str(delim); ... out.push_str(&label)`
PushLabel(o, d, text) == o \o d \o text

Fail(e) == /\ err' = e
           /\ pc' = "failed"

\* A call of read_qname: the locals as the function starts
EnterQname(back) ==
    /\ pc' = "qname"
    /\ ret' = back
    /\ qstart' = pos
    /\ qpos' = pos
    /\ out' = <<>>
    /\ jumped' = FALSE
    /\ jumps_performed' = 0
    /\ delim' = <<>>
    /\ len' = 0

QnameTooManyJumps ==
    /\ pc = "qname"
    /\ JumpLimitHit(jumps_performed)
    /\ Fail(MaxJumpsExceeded)
    /\ UNCHANGED <<profile, fuel, mem, pos, ret, name>>
    /\ UNCHANGED <<qvars, pktvars, cmpvars>>

QnameGetFails ==
    /\ pc = "qname"
    /\ ~JumpLimitHit(jumps_performed)
    /\ GetFails(qpos)
    /\ Fail(EndOfBuffer)
    /\ UNCHANGED <<profile, fuel, mem, pos, ret, name>>
    /\ UNCHANGED <<qvars, pktvars, cmpvars>>

\* The length byte is a pointer: the cursor is committed on the first one
QnamePointer ==
    /\ pc = "qname"
    /\ ~JumpLimitHit(jumps_performed)
    /\ ~GetFails(qpos)
    /\ \E b \in LenChoices(qpos) :
        /\ IsJump(b)
        /\ mem' = Put(mem, qpos, b)
        /\ fuel' = Spend("ptr", qpos)
        /\ len' = b
    /\ pos' = SeekPastPointer(jumped, pos, qpos)
    /\ pc' = "qname_b2"
    /\ UNCHANGED <<profile, ret, err, name>>
    /\ UNCHANGED <<qstart, qpos, out, jumped, jumps_performed, delim>>
    /\ UNCHANGED <<pktvars, cmpvars>>

QnameJumpFails ==
    /\ pc = "qname_b2"
    /\ GetFails(qpos + 1)
    /\ Fail(EndOfBuffer)
    /\ UNCHANGED <<profile, fuel, mem, pos, ret, name>>
    /\ UNCHANGED <<qvars, pktvars, cmpvars>>

QnameJump ==
    /\ pc = "qname_b2"
    /\ ~GetFails(qpos + 1)
    /\ \E b2 \in B2Choices(qpos + 1, len) :
        /\ mem' = Put(mem, qpos + 1, b2)
        /\ qpos' = JumpOffset(len, b2)
    /\ jumped' = TRUE
    /\ jumps_performed' = JumpsAfter(jumps_performed)
    /\ pc' = "qname"
    /\ UNCHANGED <<profile, fuel, pos, ret, err, name>>
    /\ UNCHANGED <<qstart, out, delim, len>>
    /\ UNCHANGED <<pktvars, cmpvars>>

\* The length byte is zero: the loop breaks and the name is returned
QnameEnd ==
    /\ pc = "qname"
    /\ ~JumpLimitHit(jumps_performed)
    /\ ~GetFails(qpos)
    /\ 0 \in LenChoices(qpos)
    /\ mem' = Put(mem, qpos, 0)
    /\ len' = 0
    /\ qpos' = qpos + 1
    /\ pos' = SeekPastName(jumped, pos, qpos + 1)
    /\ name' = out
    /\ pc' = ret
    /\ UNCHANGED <<profile, fuel, ret, err>>
    /\ UNCHANGED <<qstart, out, jumped, jumps_performed, delim>>
    /\ UNCHANGED <<pktvars, cmpvars>>

QnameLabelFails ==
    /\ pc = "qname"
    /\ ~JumpLimitHit(jumps_performed)
    /\ ~GetFails(qpos)
    /\ \E b \in LenChoices(qpos) :
        /\ ~IsJump(b)
        /\ b # 0
        /\ RangeFails(qpos + 1, b)
        /\ mem' = Put(mem, qpos, b)
        /\ fuel' = Spend("label", qpos)
        /\ len' = b
    /\ qpos' = qpos + 1
    /\ out' = out \o delim
    /\ Fail(EndOfBuffer)
    /\ UNCHANGED <<profile, pos, ret, name>>
    /\ UNCHANGED <<qstart, jumped, jumps_performed, delim>>
    /\ UNCHANGED <<pktvars, cmpvars>>

QnameLabel ==
    /\ pc = "qname"
    /\ ~JumpLimitHit(jumps_performed)
    /\ ~GetFails(qpos)
    /\ \E b \in LenChoices(qpos), fill \in LabelFills :
        /\ ~IsJump(b)
        /\ b # 0
        /\ ~RangeFails(qpos + 1, b)
        /\ LET m == Reveal(Put(mem, qpos, b), qpos + 1, b, fill)
           IN  /\ mem' = m
               /\ out' = PushLabel(out, delim, LabelText(Slice(m, qpos + 1, b)))
        /\ fuel' = Spend("label", qpos)
        /\ len' = b
        /\ qpos' = qpos + 1 + b
    /\ delim' = Dot
    /\ UNCHANGED <<profile, pos, pc, ret, err, name>>
    /\ UNCHANGED <<qstart, jumped, jumps_performed>>
    /\ UNCHANGED <<pktvars, cmpvars>>

ReadQname ==
    \/ QnameTooManyJumps
    \/ QnameGetFails
    \/ QnamePointer
    \/ QnameJumpFails
    \/ QnameJump
    \/ QnameEnd
    \/ QnameLabelFails
    \/ QnameLabel

----------------------------------------------------------------------------
(* read and read_u16 at the cursor: every outcome, over the bytes the input
   may hold there.  spent is what the bytes cost of fuel.field. *)

Read(role) ==
    IF ReadFails(pos)
    THEN {[ok |-> FALSE, val |-> 0, pos |-> pos, mem |-> mem, spent |-> 0]}
    ELSE {[ok |-> TRUE, val |-> b, pos |-> pos + 1, mem |-> Put(mem, pos, b),
           spent |-> Cost(pos, role, b)] : b \in Choices(pos, role)}

ReadU16(roleHi, roleLo) ==
    IF ReadFails(pos)
    THEN {[ok |-> FALSE, val |-> 0, pos |-> pos, mem |-> mem, spent |-> 0]}
    ELSE UNION {
        IF ReadFails(pos + 1)
        THEN {[ok |-> FALSE, val |-> 0, pos |-> pos + 1,
               mem |-> Put(mem, pos, hi), spent |-> Cost(pos, roleHi, hi)]}
        ELSE {[ok |-> TRUE, val |-> U16Of(hi, lo), pos |-> pos + 2,
               mem |-> Put(Put(mem, pos, hi), pos + 1, lo),
               spent |-> Cost(pos, roleHi, hi) + Cost(pos + 1, roleLo, lo)] :
                    lo \in {l \in Choices(pos + 1, roleLo) :
                                Cost(pos, roleHi, hi) + Cost(pos + 1, roleLo, l)
                                    <= fuel.field \/ Free(roleLo)}}
        : hi \in Choices(pos, roleHi)}

\* The effect of a read on the buffer, and where the decoder goes on: to
\* `next` when the read succeeded, and out of the decode with the error when not
AfterRead(r, next) ==
    /\ mem' = r.mem
    /\ pos' = r.pos
    /\ fuel' = [fuel EXCEPT !.field = fuel.field - r.spent]
    /\ pc' = IF r.ok THEN next ELSE "failed"
    /\ err' = IF r.ok THEN err ELSE EndOfBuffer

----------------------------------------------------------------------------
(* ResultCode::from_num, QueryType::from_num *)

ResultCodeFromNum(n) ==
    CASE n = 1 -> "FORMERR"
      [] n = 2 -> "SERVFAIL"
      [] n = 3 -> "NXDOMAIN"
      [] n = 4 -> "NOTIMP"
      [] n = 5 -> "REFUSED"
      [] n = 6 -> "YXDOMAIN"
      [] n = 7 -> "XRRSET"
      [] n = 8 -> "NOTAUTH"
      [] n = 9 -> "NOTZONE"
      [] OTHER -> "NOERROR"

QueryTypeFromNum(num) ==
    IF num = 1 THEN [tag |-> "A"] ELSE [tag |-> "UNKNOWN", code |-> num]

----------------------------------------------------------------------------
(* DnsHeader *)

NewHeader ==
    [id |-> 0, query_res |-> FALSE, opcode |-> 0, auth_ans |-> FALSE,
     trunc_msg |-> FALSE, rec_des |-> FALSE, rec_ava |-> FALSE, z |-> 0,
     rcode |-> "NOERROR", qdcount |-> 0, anscount |-> 0, nscount |-> 0,
     arcount |-> 0]

\* `((a & 0x80) >> 7) > 0`
QueryRes(a) == Shr(BitAnd(a, 128), 7) > 0
\* a mask that drops bit 3
OpcodeNarrowMask(a) == Shr(BitAnd(a, 112), 3)

\* `(a & 0x78) >> 3`
Opcode(a) == Shr(BitAnd(a, 120), 3)
\* `((a & 0x4) >> 2) > 0`
AuthAns(a) == Shr(BitAnd(a, 4), 2) > 0
\* `((a & 0x2) >> 1) > 0`
TruncMsg(a) == Shr(BitAnd(a, 2), 1) > 0
\* `(a & 0x1) > 0`
RecDes(a) == BitAnd(a, 1) > 0
\* `((b & 0x80) >> 7) > 0`
RecAva(b) == Shr(BitAnd(b, 128), 7) > 0
\* `(b & 0x70) >> 4`
Z(b) == Shr(BitAnd(b, 112), 4)
\* `ResultCode::from_num(b & 0xF)`
Rcode(b) == ResultCodeFromNum(BitAnd(b, 15))

\* `self.id = buf.read_u16()?`
HdrId ==
    /\ pc = "hdr_id"
    /\ \E r \in ReadU16("id_hi", "id_lo") :
        /\ AfterRead(r, "hdr_a")
        /\ header' = IF r.ok THEN [header EXCEPT !.id = r.val] ELSE header
    /\ UNCHANGED <<profile, ret, name, qvars, cmpvars>>
    /\ UNCHANGED <<questions, answers, authorities, additional, sect, i, rec>>

\* `let a = buf.read()?`
HdrA ==
    /\ pc = "hdr_a"
    /\ \E r \in Read("flags_a") :
        /\ AfterRead(r, "hdr_b")
        /\ rec' = IF r.ok THEN [a |-> r.val] ELSE rec
    /\ UNCHANGED <<profile, ret, name, qvars, cmpvars>>
    /\ UNCHANGED <<header, questions, answers, authorities, additional, sect, i>>

\* `let b = buf.read()?` and the eight flag fields
HdrB ==
    /\ pc = "hdr_b"
    /\ \E r \in Read("flags_b") :
        /\ AfterRead(r, "hdr_qd")
        /\ rec' = IF r.ok THEN [a |-> rec.a, b |-> r.val] ELSE rec
        /\ header' =
            IF r.ok
            THEN [header EXCEPT !.query_res = QueryRes(rec.a),
                                !.opcode = Opcode(rec.a),
                                !.auth_ans = AuthAns(rec.a),
                                !.trunc_msg = TruncMsg(rec.a),
                                !.rec_des = RecDes(rec.a),
                                !.rec_ava = RecAva(r.val),
                                !.z = Z(r.val),
                                !.rcode = Rcode(r.val)]
            ELSE header
    /\ UNCHANGED <<profile, ret, name, qvars, cmpvars>>
    /\ UNCHANGED <<questions, answers, authorities, additional, sect, i>>

\* `self.qdcount = buf.read_u16()?`
HdrQd ==
    /\ pc = "hdr_qd"
    /\ \E r \in ReadU16("count_hi", "qd_lo") :
        /\ AfterRead(r, "hdr_an")
        /\ header' = IF r.ok THEN [header EXCEPT !.qdcount = r.val] ELSE header
    /\ UNCHANGED <<profile, ret, name, qvars, cmpvars>>
    /\ UNCHANGED <<questions, answers, authorities, additional, sect, i, rec>>

\* `self.anscount = buf.read_u16()?`
HdrAn ==
    /\ pc = "hdr_an"
    /\ \E r \in ReadU16("count_hi", "an_lo") :
        /\ AfterRead(r, "hdr_ns")
        /\ header' = IF r.ok THEN [header EXCEPT !.anscount = r.val] ELSE header
    /\ UNCHANGED <<profile, ret, name, qvars, cmpvars>>
    /\ UNCHANGED <<questions, answers, authorities, additional, sect, i, rec>>

\* `self.nscount = buf.read_u16()?`
HdrNs ==
    /\ pc = "hdr_ns"
    /\ \E r \in ReadU16("count_hi", "ns_lo") :
        /\ AfterRead(r, "hdr_ar")
        /\ header' = IF r.ok THEN [header EXCEPT !.nscount = r.val] ELSE header
    /\ UNCHANGED <<profile, ret, name, qvars, cmpvars>>
    /\ UNCHANGED <<questions, answers, authorities, additional, sect, i, rec>>

\* `self.arcount = buf.read_u16()?; Ok(())`: back to the caller
HdrAr ==
    /\ pc = "hdr_ar"
    /\ \E r \in ReadU16("count_hi", "ar_lo") :
        /\ AfterRead(r, ret)
        /\ header' = IF r.ok THEN [header EXCEPT !.arcount = r.val] ELSE header
    /\ UNCHANGED <<profile, ret, name, qvars, cmpvars>>
    /\ UNCHANGED <<questions, answers, authorities, additional, sect, i, rec>>

HeaderRead == HdrId \/ HdrA \/ HdrB \/ HdrQd \/ HdrAn \/ HdrNs \/ HdrAr

----------------------------------------------------------------------------
(* DnsQuestion::read *)

\* DnsQuestion::new; at records where on the wire the question is decoded
NewQuestion ==
    [name |-> <<>>, qtype |-> [tag |-> "UNKNOWN", code |-> 0], class |-> 1,
     at |-> pos]

\* `self.name = buffer.read_qname()?` has returned;
\* `self.qtype = QueryType::from_num(buffer.read_u16()?)`
QType ==
    /\ pc = "q_type"
    /\ \E r \in ReadU16("type_hi", "type_lo") :
        /\ AfterRead(r, "q_class")
        /\ rec' = IF r.ok
                  THEN [rec EXCEPT !.name = name, !.qtype = QueryTypeFromNum(r.val)]
                  ELSE [rec EXCEPT !.name = name]
    /\ UNCHANGED <<profile, ret, name, qvars, cmpvars>>
    /\ UNCHANGED <<header, questions, answers, authorities, additional, sect, i>>

\* `self.class = buffer.read_u16()?; Ok(())`, and from_buf's
\* `res.questions.push(qn)`
QClass ==
    /\ pc = "q_class"
    /\ \E r \in ReadU16("class_hi", "class_lo") :
        /\ AfterRead(r, "loop")
        /\ rec' = IF r.ok THEN [rec EXCEPT !.class = r.val] ELSE rec
        /\ questions' = IF r.ok THEN Append(questions, rec') ELSE questions
        /\ i' = IF r.ok THEN i + 1 ELSE i
    /\ UNCHANGED <<profile, ret, name, qvars, cmpvars>>
    /\ UNCHANGED <<header, answers, authorities, additional, sect>>

----------------------------------------------------------------------------
(* DnsRecord::from *)

\* `(buf.read_u16()? << 8) as u32 | buf.read_u16()? as u32`: the shift is a
\* u16's, the bits it moves past bit 15 are lost
Ttl(hi16, lo16) == Or32(AsU32(Shl16(hi16, 8)), AsU32(lo16))

\* `(buf.read_u16()? as u32) << 16 | buf.read_u16()? as u32`
Ip(hi16, lo16) == Or32(Shl32By16(AsU32(hi16)), AsU32(lo16))

\* DnsRecord::A { .. } and DnsRecord::UNKNOWN { .. } of the fields read
RecordA(r, ip) ==
    [tag |-> "A", domain |-> r.domain, class |-> r.class, ttl |-> r.ttl,
     len |-> r.len, ip |-> ip, at |-> r.at, loop |-> r.loop]

RecordUnknown(r) ==
    [tag |-> "UNKNOWN", domain |-> r.domain, qtype |-> r.qtype, class |-> r.class,
     ttl |-> r.ttl, len |-> r.len, at |-> r.at, loop |-> r.loop]

\* the three record lists with each loop pushing to a list of its own
PushedBySection(s, r) ==
    [answers |-> IF s = "an" THEN Append(answers, r) ELSE answers,
     authorities |-> IF s = "ns" THEN Append(authorities, r) ELSE authorities,
     additional |-> IF s = "ar" THEN Append(additional, r) ELSE additional]

\* `res.answers.push(DnsRecord::from(buf)?)` in each of the three loops: the
\* three record lists after it
Pushed(s, r) ==
    [answers |-> Append(answers, r),
     authorities |-> authorities,
     additional |-> additional]

Push(r) ==
    /\ answers' = Pushed(sect, r).answers
    /\ authorities' = Pushed(sect, r).authorities
    /\ additional' = Pushed(sect, r).additional
    /\ i' = i + 1

\* `let domain = buf.read_qname()?` has returned;
\* `let qtype = QueryType::from_num(buf.read_u16()?)`
RType ==
    /\ pc = "r_type"
    /\ \E r \in ReadU16("type_hi", "type_lo") :
        /\ AfterRead(r, "r_class")
        /\ rec' = IF r.ok
                  THEN [rec EXCEPT !.domain = name, !.qtype = QueryTypeFromNum(r.val)]
                  ELSE [rec EXCEPT !.domain = name]
    /\ UNCHANGED <<profile, ret, name, qvars, cmpvars>>
    /\ UNCHANGED <<header, questions, answers, authorities, additional, sect, i>>

\* `let class = buf.read_u16()?`
RClass ==
    /\ pc = "r_class"
    /\ \E r \in ReadU16("class_hi", "class_lo") :
        /\ AfterRead(r, "r_ttl_hi")
        /\ rec' = IF r.ok THEN [rec EXCEPT !.class = r.val] ELSE rec
    /\ UNCHANGED <<profile, ret, name, qvars, cmpvars>>
    /\ UNCHANGED <<header, questions, answers, authorities, additional, sect, i>>

\* the first read_u16 of `let ttl = ...`
RTtlHi ==
    /\ pc = "r_ttl_hi"
    /\ \E r \in ReadU16("ttl0", "ttl1") :
        /\ AfterRead(r, "r_ttl_lo")
        /\ rec' = IF r.ok THEN [rec EXCEPT !.hi16 = r.val] ELSE rec
    /\ UNCHANGED <<profile, ret, name, qvars, cmpvars>>
    /\ UNCHANGED <<header, questions, answers, authorities, additional, sect, i>>

\* the second read_u16 of `let ttl = ...`, and the value
RTtlLo ==
    /\ pc = "r_ttl_lo"
    /\ \E r \in ReadU16("ttl2", "ttl3") :
        /\ AfterRead(r, "r_len")
        /\ rec' = IF r.ok THEN [rec EXCEPT !.ttl = Ttl(rec.hi16, r.val)] ELSE rec
    /\ UNCHANGED <<profile, ret, name, qvars, cmpvars>>
    /\ UNCHANGED <<header, questions, answers, authorities, additional, sect, i>>

\* `let len = buf.read_u16()?` and `match qtype`: an UNKNOWN record is
\* complete here and is pushed; an A record reads its address next
RLen ==
    /\ pc = "r_len"
    /\ \E r \in ReadU16("len_hi", "len_lo") :
        /\ AfterRead(r, IF rec.qtype.tag = "A" THEN "r_ip_hi" ELSE "loop")
        /\ rec' = IF r.ok
                  THEN [rec EXCEPT !.len = r.val, !.len_end = r.pos,
                                   !.done = rec.qtype.tag # "A"]
                  ELSE rec
        /\ IF r.ok /\ rec.qtype.tag # "A"
           THEN Push(RecordUnknown(rec'))
           ELSE UNCHANGED <<answers, authorities, additional, i>>
    /\ UNCHANGED <<profile, ret, name, qvars, cmpvars>>
    /\ UNCHANGED <<header, questions, sect>>

\* the first read_u16 of `ip: ...`
RIpHi ==
    /\ pc = "r_ip_hi"
    /\ \E r \in ReadU16("ip0", "ip1") :
        /\ AfterRead(r, "r_ip_lo")
        /\ rec' = IF r.ok THEN [rec EXCEPT !.hi16 = r.val] ELSE rec
    /\ UNCHANGED <<profile, ret, name, qvars, cmpvars>>
    /\ UNCHANGED <<header, questions, answers, authorities, additional, sect, i>>

\* the second read_u16 of `ip: ...`; the A record is complete and is pushed
RIpLo ==
    /\ pc = "r_ip_lo"
    /\ \E r \in ReadU16("ip2", "ip3") :
        /\ AfterRead(r, "loop")
        /\ rec' = IF r.ok THEN [rec EXCEPT !.done = TRUE] ELSE rec
        /\ IF r.ok
           THEN Push(RecordA(rec, Ip(rec.hi16, r.val)))
           ELSE UNCHANGED <<answers, authorities, additional, i>>
    /\ UNCHANGED <<profile, ret, name, qvars, cmpvars>>
    /\ UNCHANGED <<header, questions, sect>>

----------------------------------------------------------------------------
(* DnsPacket::from_buf *)

Count(s) ==
    CASE s = "qd" -> header.qdcount
      [] s = "an" -> header.anscount
      [] s = "ns" -> header.nscount
      [] s = "ar" -> header.arcount

NextSect(s) ==
    CASE s = "qd" -> "an"
      [] s = "an" -> "ns"
      [] s = "ns" -> "ar"

\* the locals of DnsRecord::from as it starts; at and loop record where on the
\* wire and in which loop the record is decoded
NewRecord ==
    [domain |-> <<>>, qtype |-> [tag |-> "UNKNOWN", code |-> 0], class |-> 0,
     hi16 |-> 0, ttl |-> <<0, 0>>, len |-> 0, len_end |-> 0, done |-> FALSE,
     at |-> pos, loop |-> sect]

\* `for _ in 0..res.header.qdcount { let mut qn = DnsQuestion::new(); qn.read(buf)?`
LoopQuestion ==
    /\ pc = "loop"
    /\ sect = "qd"
    /\ i < Count(sect)
    /\ rec' = NewQuestion
    /\ EnterQname("q_type")
    /\ UNCHANGED <<profile, fuel, mem, pos, err, name, cmpvars>>
    /\ UNCHANGED <<header, questions, answers, authorities, additional, sect, i>>

\* `for _ in 0..res.header.anscount { ... DnsRecord::from(buf)?`, and the same
\* for nscount and arcount
LoopRecord ==
    /\ pc = "loop"
    /\ sect # "qd"
    /\ i < Count(sect)
    /\ rec' = NewRecord
    /\ EnterQname("r_type")
    /\ UNCHANGED <<profile, fuel, mem, pos, err, name, cmpvars>>
    /\ UNCHANGED <<header, questions, answers, authorities, additional, sect, i>>

\* a loop is over and the next one starts
LoopNext ==
    /\ pc = "loop"
    /\ sect # "ar"
    /\ ~(i < Count(sect))
    /\ sect' = NextSect(sect)
    /\ i' = 0
    /\ UNCHANGED <<profile, fuel, mem, pos, pc, ret, err, name, qvars, cmpvars>>
    /\ UNCHANGED <<header, questions, answers, authorities, additional, rec>>

\* `Ok(res)`
LoopDone ==
    /\ pc = "loop"
    /\ sect = "ar"
    /\ ~(i < Count(sect))
    /\ pc' = "done"
    /\ UNCHANGED <<profile, fuel, mem, pos, ret, err, name, qvars, cmpvars>>
    /\ UNCHANGED <<pktvars>>

FromBuf ==
    \/ HeaderRead
    \/ LoopQuestion
    \/ QType
    \/ QClass
    \/ LoopRecord
    \/ RType
    \/ RClass
    \/ RTtlHi
    \/ RTtlLo
    \/ RLen
    \/ RIpHi
    \/ RIpLo
    \/ LoopNext
    \/ LoopDone
    \/ ReadQname

NoFirst == [err |-> "", name |-> <<>>, pos |-> 0, pc |-> "none"]

InitCommon ==
    /\ err = ""
    /\ name = <<>>
    /\ header = NewHeader
    /\ questions = <<>>
    /\ answers = <<>>
    /\ authorities = <<>>
    /\ additional = <<>>
    /\ sect = "qd"
    /\ i = 0
    /\ rec = <<>>
    /\ range_check = "source"
    /\ first = NoFirst

InitLocals ==
    /\ qstart = pos
    /\ qpos = pos
    /\ out = <<>>
    /\ jumped = FALSE
    /\ jumps_performed = 0
    /\ delim = <<>>
    /\ len = 0

\* main: the buffer is read from a file and decoded by from_buf, the cursor at 0
Init ==
    /\ \/ /\ profile = "small"
          /\ fuel = [label |-> 0, ptr |-> 0, field |-> MaxFields]
          /\ mem \in {Empty, ExampleMem}
       \/ /\ profile = "flood"
          /\ fuel = [label |-> 0, ptr |-> 0, field |-> 0]
          /\ mem = Empty
       \/ /\ profile = "edge"
          /\ fuel = [label |-> EdgeLabels, ptr |-> 1, field |-> 0]
          /\ mem = Empty
    /\ pos = 0
    /\ pc = "hdr_id"
    /\ ret = "loop"
    /\ InitLocals
    /\ InitCommon

Next == FromBuf

Spec == Init /\ [][Next]_vars

\* from_buf runs on one thread and is never suspended: it takes its next step
FairSpec == Spec /\ WF_vars(Next)

----------------------------------------------------------------------------
(* DnsHeader::read alone, started at any of HeaderStarts *)

HeaderStarts == {0, 500, 501, 506, 511, 512}

InitHeader ==
    /\ profile = "header"
    /\ fuel = [label |-> 0, ptr |-> 0, field |-> MaxHeaderBytes]
    /\ \/ mem = Empty /\ pos \in HeaderStarts
       \/ mem = ExampleMem /\ pos = 0
    /\ pc = "hdr_id"
    /\ ret = "done"
    /\ InitLocals
    /\ InitCommon

NextHeader == HeaderRead

SpecHeader == InitHeader /\ [][NextHeader]_vars

----------------------------------------------------------------------------
(* read_qname alone, started at any of QnameStarts *)

QnameStarts == {0, 12, 447, 448, 510, 511, 512}

\* in the family "chain" the name starts after the example's question, whose
\* name at 12 a pointer may name, or near the end of an empty buffer
ChainEdge == BufSize - 2

InitQnameOf(families) ==
    /\ profile \in families
    /\ \/ /\ profile = "qname"
          /\ fuel = [label |-> MaxLabels, ptr |-> FewPointers, field |-> 0]
          /\ \/ mem = Empty /\ pos \in QnameStarts
             \/ mem = ExampleMem /\ pos = 12
       \/ /\ profile = "chain"
          /\ fuel = [label |-> 0, ptr |-> MaxPointers, field |-> 0]
          /\ \/ mem = ExampleMem /\ pos = Len(ExampleBytes)
             \/ mem = Empty /\ pos = ChainEdge
    /\ pc = "qname"
    /\ ret = "done"
    /\ InitLocals
    /\ InitCommon

InitQname == InitQnameOf({"qname", "chain"})

NextQname == ReadQname

SpecQname == InitQname /\ [][NextQname]_vars

\* The same name decoded a second time, by a read_qname whose get_range has
\* the exact bound: the first outcome is kept and the call starts again.
Rerun ==
    /\ pc \in {"done", "failed"}
    /\ range_check = "source"
    /\ first' = [err |-> err, name |-> name, pos |-> pos, pc |-> pc]
    /\ range_check' = "exact"
    /\ pos' = qstart
    /\ pc' = "qname"
    /\ err' = ""
    /\ name' = <<>>
    /\ qpos' = qstart
    /\ out' = <<>>
    /\ jumped' = FALSE
    /\ jumps_performed' = 0
    /\ delim' = <<>>
    /\ len' = 0
    /\ UNCHANGED <<profile, fuel, mem, ret, qstart, pktvars>>

NextQnameCmp == ReadQname \/ Rerun

InitQnameCmp == InitQnameOf({"qname"})

SpecQnameCmp == InitQnameCmp /\ [][NextQnameCmp]_vars

----------------------------------------------------------------------------
(* What the wire holds, read off the buffer independently of read_qname *)

Finished == pc \in {"done", "failed"}

\* The name at p, following at most 5 pointers: "name" with the labels in wire
\* order, the number k of pointers followed, the position fp of the first
\* pointer (-1 when none) and the position of the terminating zero; "deep" when
\* a sixth pointer is met; "unread" when it runs into a byte outside mem.
RECURSIVE WireName(_, _, _, _, _)
WireName(m, p, k, labels, fp) ==
    IF p \notin DOMAIN m
    THEN [kind |-> "unread", k |-> k, labels |-> labels, fp |-> fp, zero |-> -1]
    ELSE IF m[p] >= 192
    THEN IF (p + 1) \notin DOMAIN m
         THEN [kind |-> "unread", k |-> k, labels |-> labels, fp |-> fp, zero |-> -1]
         ELSE IF k = 5
         THEN [kind |-> "deep", k |-> 6, labels |-> labels, fp |-> fp, zero |-> -1]
         ELSE WireName(m, (m[p] - 192) * 256 + m[p + 1], k + 1, labels,
                       IF fp = -1 THEN p ELSE fp)
    ELSE IF m[p] = 0
    THEN [kind |-> "name", k |-> k, labels |-> labels, fp |-> fp, zero |-> p]
    ELSE IF \E q \in (p + 1)..(p + m[p]) : q \notin DOMAIN m
    THEN [kind |-> "unread", k |-> k, labels |-> labels, fp |-> fp, zero |-> -1]
    ELSE WireName(m, p + 1 + m[p], k,
                  Append(labels, [j \in 1..m[p] |-> m[p + j]]), fp)

Wire == WireName(mem, qstart, 0, <<>>, -1)

AsciiLower(label) ==
    [j \in 1..Len(label) |->
        IF label[j] \in 65..90 THEN label[j] + 32 ELSE label[j]]

RECURSIVE DotJoin(_)
DotJoin(labels) ==
    IF labels = <<>> THEN <<>>
    ELSE IF Len(labels) = 1 THEN labels[1]
    ELSE labels[1] \o <<46>> \o DotJoin(Tail(labels))

WwwExampleCom ==
    <<119, 119, 119, 46, 101, 120, 97, 109, 112, 108, 101, 46, 99, 111, 109>>

\* C3: a name read through exactly 5 pointers is decoded (read_qname returns
\* it); one whose chain holds a sixth pointer (a cycle included) fails with
\* "max jumps exceeded".
C3_JumpLimit ==
    Finished =>
        /\ (Wire.kind = "name" /\ Wire.k = 5) =>
                /\ pc = "done"
                /\ err = ""
                /\ name = DotJoin([n \in 1..Len(Wire.labels) |->
                                        LabelText(Wire.labels[n])])
        /\ Wire.kind = "deep" => (pc = "failed" /\ err = MaxJumpsExceeded)

C3_Witness ==
    /\ pc = "done"
    /\ jumps_performed = 5
    /\ Wire.k = 5
    /\ Len(name) > 0

\* C4: after a successful read_qname the cursor is 2 past the first pointer
\* the name holds, or, when it holds none, 1 past its terminating zero.
C4_CursorAfterName ==
    (pc = "done" /\ err = "") =>
        /\ Wire.kind = "name"
        /\ IF Wire.fp # -1 THEN pos = Wire.fp + 2 ELSE pos = Wire.zero + 1

C4_Witness ==
    /\ pc = "done"
    /\ jumps_performed >= 2
    /\ Wire.fp > qstart
    /\ pos = Wire.fp + 2

\* C7: a well-formed uncompressed name (labels of 1..63 ASCII bytes, a zero
\* byte, all in the buffer) decodes to its labels in wire order, lowercased and
\* joined by single dots; the root name to the empty string; www, example, com
\* to "www.example.com".
WellFormedUncompressed ==
    /\ Wire.kind = "name"
    /\ Wire.k = 0
    /\ \A n \in 1..Len(Wire.labels) :
        /\ Len(Wire.labels[n]) \in 1..63
        /\ \A j \in 1..Len(Wire.labels[n]) : Wire.labels[n][j] < 128

C7_UncompressedName ==
    (Finished /\ WellFormedUncompressed) =>
        /\ pc = "done"
        /\ err = ""
        /\ name = DotJoin([n \in 1..Len(Wire.labels) |-> AsciiLower(Wire.labels[n])])
        /\ (Wire.labels = <<>> => name = <<>>)
        /\ (qstart = 12 /\ \A q \in 12..28 : Known(q) /\ mem[q] = ExampleMem[q])
                => name = WwwExampleCom

C7_Witness ==
    /\ pc = "done"
    /\ WellFormedUncompressed
    /\ Len(Wire.labels) = 2
    /\ Wire.labels[1][1] = 65
    /\ name[1] = 97

\* C10: read_qname with get_range's bound `start + len >= 512` and read_qname
\* with the exact bound `start + len > 512` end the same way on the same
\* buffer: the same name or the same error, and the same cursor.
C10_RangeBoundUnobservable ==
    (range_check = "exact" /\ Finished) =>
        /\ first.pc = pc
        /\ first.err = err
        /\ first.pos = pos
        /\ first.name = name

\* the two runs part: only the second reads the label that ends at byte 511
C10_Witness ==
    /\ range_check = "exact"
    /\ pc = "failed"
    /\ qpos = BufSize
    /\ len > 0
    /\ len < 192
    /\ Known(BufSize - 1)

----------------------------------------------------------------------------
(* Claims about from_buf (Spec, FairSpec) and DnsHeader::read (SpecHeader) *)

\* DnsRecord::from has just returned a record: rec holds its fields
Decoded == "done" \in DOMAIN rec /\ rec.done

\* C1: the cursor never exceeds 512, in any state of from_buf.
C1_CursorAtMost512 == pos <= 512

\* C2: from_buf terminates, with Ok or with Err, on every input.
C2_Terminates == <>(pc \in {"done", "failed"})

\* a decode that ended on a pointer cycle, at the jump limit
C2_Witness ==
    /\ pc = "failed"
    /\ err = MaxJumpsExceeded
    /\ jumps_performed = 6
    /\ Len(questions) + Len(answers) > 0

\* C5: a record's ttl is the 32-bit big-endian value of its four TTL bytes.
C5_TtlBigEndian ==
    Decoded =>
        LET t == rec.len_end - 6
        IN  rec.ttl = <<mem[t] * 256 + mem[t + 1], mem[t + 2] * 256 + mem[t + 3]>>

\* C6: after DnsRecord::from the cursor is past the rdata: at the end of the
\* length field plus the declared length.
C6_CursorPastRdata ==
    (pc = "loop" /\ Decoded) => pos = rec.len_end + rec.len

\* C9: from_buf's Ok packet holds qdcount questions and anscount + nscount +
\* arcount answers, each list in wire order and the answers by section, with
\* authorities and additional empty; a failed decode returns the error.
WireU16(p) == mem[p] * 256 + mem[p + 1]

C9_PacketLists ==
    /\ pc = "done" =>
        /\ err = ""
        /\ Len(questions) = WireU16(4)
        /\ Len(answers) = WireU16(6) + WireU16(8) + WireU16(10)
        /\ authorities = <<>>
        /\ additional = <<>>
        /\ \A n \in 1..Len(answers) :
            answers[n].loop =
                IF n <= WireU16(6) THEN "an"
                ELSE IF n <= WireU16(6) + WireU16(8) THEN "ns"
                ELSE "ar"
        /\ \A m, n \in 1..Len(questions) : m < n => questions[m].at < questions[n].at
        /\ \A m, n \in 1..Len(answers) : m < n => answers[m].at < answers[n].at
        /\ \A m \in 1..Len(questions), n \in 1..Len(answers) :
            questions[m].at < answers[n].at
    /\ pc = "failed" => err \in {EndOfBuffer, MaxJumpsExceeded}

C9_Witness ==
    /\ pc = "done"
    /\ Len(questions) = 2
    /\ Len(answers) = 4
    /\ header.anscount = 2
    /\ header.nscount = 1
    /\ header.arcount = 1

\* C8: DnsHeader::read started at p <= 500 succeeds, moves the cursor by 12 and
\* yields the fields of the 12 bytes as RFC 1035 lays them out; the bytes
\* 86 2a 01 20 00 01 00 00 00 00 00 00 give id 0x862A, rec_des, z 2, qdcount 1.
RcodeNames ==
    <<"NOERROR", "FORMERR", "SERVFAIL", "NXDOMAIN", "NOTIMP", "REFUSED",
      "YXDOMAIN", "XRRSET", "NOTAUTH", "NOTZONE">>

C8_HeaderFields ==
    (Finished /\ qstart <= 500) =>
        LET p == qstart
            a == mem[p + 2]
            b == mem[p + 3]
        IN  /\ pc = "done"
            /\ err = ""
            /\ pos = p + 12
            /\ header.id = mem[p] * 256 + mem[p + 1]
            /\ header.query_res = ((a \div 128) % 2 = 1)
            /\ header.opcode = (a \div 8) % 16
            /\ header.auth_ans = ((a \div 4) % 2 = 1)
            /\ header.trunc_msg = ((a \div 2) % 2 = 1)
            /\ header.rec_des = (a % 2 = 1)
            /\ header.rec_ava = ((b \div 128) % 2 = 1)
            /\ header.z = (b \div 16) % 8
            /\ header.rcode = IF b % 16 <= 9 THEN RcodeNames[(b % 16) + 1] ELSE "NOERROR"
            /\ header.qdcount = mem[p + 4] * 256 + mem[p + 5]
            /\ header.anscount = mem[p + 6] * 256 + mem[p + 7]
            /\ header.nscount = mem[p + 8] * 256 + mem[p + 9]
            /\ header.arcount = mem[p + 10] * 256 + mem[p + 11]
            /\ (\A q \in 0..11 : mem[p + q] = ExampleBytes[q + 1]) =>
                    header = [id |-> 34346, query_res |-> FALSE, opcode |-> 0,
                              auth_ans |-> FALSE, trunc_msg |-> FALSE,
                              rec_des |-> TRUE, rec_ava |-> FALSE, z |-> 2,
                              rcode |-> "NOERROR", qdcount |-> 1, anscount |-> 0,
                              nscount |-> 0, arcount |-> 0]

C8_Witness ==
    /\ pc = "done"
    /\ qstart = 500
    /\ pos = 512
    /\ header.opcode = 15
    /\ header.rcode = "NOTZONE"
    /\ header.arcount = 255

====
